---- MODULE Spec2Model ----
(***************************************************************************)
(* The Models construct of lib/models/index.ts: one synchronous            *)
(* constructor that reads props.config, conditionally creates the two      *)
(* JumpStart SageMaker endpoints, serialises the list of descriptors into  *)
(* an SSM string parameter and optionally attaches a scheduler role with   *)
(* start/stop schedules.  Every statement of the constructor is one step   *)
(* of the state machine; pc is the constructor's position.                 *)
(*                                                                         *)
(* Strings are TLA+ strings; split, join, template literals and            *)
(* JSON.stringify are computed character by character.  The constructor    *)
(* ends in an error in two ways: a TypeError raised by one of its own      *)
(* property accesses, and the error Secret.fromSecretCompleteArn raises    *)
(* for an ARN that is not a complete secret ARN.  The other constructors   *)
(* of the CDK libraries record their props.                                *)
(***************************************************************************)
EXTENDS Integers, Sequences, FiniteSets, TLC

\* Longest config.llms.sagemaker list that is enumerated.
MaxModels == 2
\* How many times the stack is synthesised again with another secret ARN.
MaxResynth == 1

(***************************************************************************)
(* String helpers (JavaScript String.prototype.split / Array.join).        *)
(***************************************************************************)

\* Array.prototype.join for an array of strings.
RECURSIVE Join(_, _)
Join(parts, sep) ==
    IF Len(parts) = 0 THEN ""
    ELSE IF Len(parts) = 1 THEN parts[1]
    ELSE parts[1] \o sep \o Join(Tail(parts), sep)

\* String.prototype.split for a one-character separator: cur is the piece
\* being read, acc the pieces already closed.
RECURSIVE SplitFrom(_, _, _, _)
SplitFrom(s, sep, cur, acc) ==
    IF s = "" THEN Append(acc, cur)
    ELSE IF Head(s) = sep THEN SplitFrom(Tail(s), sep, "", Append(acc, cur))
    ELSE SplitFrom(Tail(s), sep, cur \o Head(s), acc)

Split(s, sep) == SplitFrom(s, sep, "", <<>>)

\* Faulty variant: the split("/").join("-") pair is left out.
EndpointNameOfDotsOnly(modelId) == Join(Split(modelId, "."), "-")

\* MODEL_ID.split("/").join("-").split(".").join("-")
EndpointNameOf(modelId) == Join(Split(Join(Split(modelId, "/"), "-"), "."), "-")

\* The template literal `jumpstart-${ENDPOINT_NAME}`.
JumpstartName(endpointName) == "jumpstart-" \o endpointName

(***************************************************************************)
(* JSON values and JSON.stringify / JSON.parse.  A value is a record       *)
(* [t, s, b, n, a]: t is its type tag, s the string, b the boolean, n the  *)
(* number, a the elements (of an array) or the <<key, value>> members in   *)
(* insertion order (of an object).                                         *)
(***************************************************************************)
JUndefined == [t |-> "undefined", s |-> "", b |-> FALSE, n |-> 0, a |-> <<>>]
JNull      == [t |-> "null", s |-> "", b |-> FALSE, n |-> 0, a |-> <<>>]
JString(x) == [t |-> "string", s |-> x, b |-> FALSE, n |-> 0, a |-> <<>>]
JBool(x)   == [t |-> "boolean", s |-> "", b |-> x, n |-> 0, a |-> <<>>]
JNumber(x) == [t |-> "number", s |-> "", b |-> FALSE, n |-> x, a |-> <<>>]
JArray(xs) == [t |-> "array", s |-> "", b |-> FALSE, n |-> 0, a |-> xs]
JObject(ms) == [t |-> "object", s |-> "", b |-> FALSE, n |-> 0, a |-> ms]

\* An array of strings as JSON values.
JStrings(xs) == [i \in 1..Len(xs) |-> JString(xs[i])]

Digits == "0123456789"

\* The decimal text of a non-negative integer.
RECURSIVE NumberText(_)
NumberText(n) ==
    IF n < 10 THEN SubSeq(Digits, n + 1, n + 1)
    ELSE NumberText(n \div 10) \o SubSeq(Digits, (n % 10) + 1, (n % 10) + 1)

\* The characters of a string with " and \ escaped.
RECURSIVE Escaped(_)
Escaped(s) ==
    IF s = "" THEN ""
    ELSE (IF Head(s) = "\"" \/ Head(s) = "\\" THEN "\\" \o Head(s) ELSE Head(s))
         \o Escaped(Tail(s))

Quoted(s) == "\"" \o Escaped(s) \o "\""

\* The members of an object that JSON.stringify writes: those whose value
\* is not undefined.
RECURSIVE WrittenMembers(_)
WrittenMembers(ms) ==
    IF Len(ms) = 0 THEN <<>>
    ELSE IF ms[1][2].t = "undefined" THEN WrittenMembers(Tail(ms))
    ELSE <<ms[1]>> \o WrittenMembers(Tail(ms))

\* JSON.stringify of a value that is not undefined at top level.
RECURSIVE JSONStringify(_)
JSONStringify(v) ==
    CASE v.t = "string"  -> Quoted(v.s)
      [] v.t = "boolean" -> IF v.b THEN "true" ELSE "false"
      [] v.t = "number"  -> NumberText(v.n)
      [] v.t = "array"   ->
            "[" \o Join([i \in 1..Len(v.a) |->
                            IF v.a[i].t = "undefined" THEN "null"
                            ELSE JSONStringify(v.a[i])], ",") \o "]"
      [] v.t = "object"  ->
            LET ms == WrittenMembers(v.a)
            IN  "{" \o Join([i \in 1..Len(ms) |->
                               Quoted(ms[i][1]) \o ":" \o JSONStringify(ms[i][2])],
                            ",") \o "}"
      [] OTHER           -> "null"

\* Whether s starts with the text p.
StartsWith(s, p) == Len(s) >= Len(p) /\ SubSeq(s, 1, Len(p)) = p

Drop(s, k) == SubSeq(s, k + 1, Len(s))

\* Reads the characters of a string literal after its opening quote:
\* [s |-> the string, rest |-> what follows the closing quote].
RECURSIVE ReadString(_, _)
ReadString(s, acc) ==
    IF s = "" THEN [s |-> acc, rest |-> ""]
    ELSE IF Head(s) = "\"" THEN [s |-> acc, rest |-> Tail(s)]
    ELSE IF Head(s) = "\\" THEN ReadString(Drop(s, 2), acc \o SubSeq(s, 2, 2))
    ELSE ReadString(Tail(s), acc \o Head(s))

\* Reads the digits of a number: [n |-> its value, rest |-> what follows].
RECURSIVE ReadNumber(_, _)
ReadNumber(s, acc) ==
    IF s # "" /\ \E d \in 0..9 : Head(s) = SubSeq(Digits, d + 1, d + 1)
    THEN ReadNumber(Tail(s),
                    10 * acc + CHOOSE d \in 0..9 : Head(s) = SubSeq(Digits, d + 1, d + 1))
    ELSE [n |-> acc, rest |-> s]

\* JSON.parse of the text JSON.stringify writes (no white space):
\* [v |-> the value read at the head of s, rest |-> the text after it].
RECURSIVE ParseValue(_), ParseElements(_, _), ParseMembers(_, _)
ParseValue(s) ==
    CASE StartsWith(s, "\"")    ->
            LET r == ReadString(Tail(s), "") IN [v |-> JString(r.s), rest |-> r.rest]
      [] StartsWith(s, "true")  -> [v |-> JBool(TRUE), rest |-> Drop(s, 4)]
      [] StartsWith(s, "false") -> [v |-> JBool(FALSE), rest |-> Drop(s, 5)]
      [] StartsWith(s, "null")  -> [v |-> JNull, rest |-> Drop(s, 4)]
      [] StartsWith(s, "[]")    -> [v |-> JArray(<<>>), rest |-> Drop(s, 2)]
      [] StartsWith(s, "{}")    -> [v |-> JObject(<<>>), rest |-> Drop(s, 2)]
      [] StartsWith(s, "[")     -> ParseElements(Tail(s), <<>>)
      [] StartsWith(s, "{")     -> ParseMembers(Tail(s), <<>>)
      [] OTHER                  ->
            LET r == ReadNumber(s, 0) IN [v |-> JNumber(r.n), rest |-> r.rest]

ParseElements(s, acc) ==
    LET e    == ParseValue(s)
        more == Append(acc, e.v)
    IN  IF StartsWith(e.rest, ",") THEN ParseElements(Tail(e.rest), more)
        ELSE [v |-> JArray(more), rest |-> Drop(e.rest, 1)]

ParseMembers(s, acc) ==
    LET k    == ReadString(Tail(s), "")
        e    == ParseValue(Drop(k.rest, 1))
        more == Append(acc, <<k.s, e.v>>)
    IN  IF StartsWith(e.rest, ",") THEN ParseMembers(Tail(e.rest), more)
        ELSE [v |-> JObject(more), rest |-> Drop(e.rest, 1)]

JSONParse(s) == ParseValue(s).v

\* The keys of an object, in order.
Keys(obj) == [i \in 1..Len(obj.a) |-> obj.a[i][1]]

\* obj[key]; undefined when the object has no such member.
Get(obj, key) ==
    IF \E i \in 1..Len(obj.a) : obj.a[i][1] = key
    THEN obj.a[CHOOSE i \in 1..Len(obj.a) : obj.a[i][1] = key][2]
    ELSE JUndefined

(***************************************************************************)
(* Enumerations of lib/shared/types and the configuration (SystemConfig).  *)
(***************************************************************************)
\* SupportedSageMakerModels members, and a list entry that is neither.
FalconLite2 == "FalconLite2"
Zephyr7b    == "Zephyr7b"
OtherModel  == "Mistral7b_Instruct"
ModelKinds  == {FalconLite2, Zephyr7b, OtherModel}

Modality_Text            == "TEXT"
ModelInterface_LangChain == "langchain"

\* All sequences over S of length at most n.
RECURSIVE SeqsUpTo(_, _)
SeqsUpTo(S, n) ==
    IF n = 0 THEN {<<>>}
    ELSE LET shorter == SeqsUpTo(S, n - 1)
         IN  shorter \cup {Append(q, x) : q \in {r \in shorter : Len(r) = n - 1}, x \in S}

\* An optional property is [defined, value]; an absent one has defined = FALSE.
Absent(default) == [defined |-> FALSE, value |-> default]
Present(x)      == [defined |-> TRUE, value |-> x]

SecretArn == "arn:aws:secretsmanager:us-east-1:111122223333:secret:hf-token-AbCdEf"

\* A secret ARN without the six-character suffix of a complete ARN.
PartialSecretArn == "arn:aws:secretsmanager:us-east-1:111122223333:secret:hf-token"

\* config.llms.huggingfaceApiSecretArn: absent, the empty string, a complete
\* ARN, an ARN that is not complete.
SecretArnValues ==
    {Absent(""), Present(""), Present(SecretArn), Present(PartialSecretArn)}

\* config.llms.sagemaker: absent, or a list of model kinds.
SagemakerValues == {Absent(<<>>)} \cup {Present(l) : l \in SeqsUpTo(ModelKinds, MaxModels)}

\* config.llms.sagemakerSchedule: absent, or an object whose enabled is
\* true or false.
ScheduleValues == {Absent(FALSE), Present(FALSE), Present(TRUE)}

LlmsOf(sm, arn, sched) ==
    [defined |-> TRUE, sagemaker |-> sm, huggingfaceApiSecretArn |-> arn,
     sagemakerSchedule |-> sched]

\* A configuration without llms.
NoLlms ==
    [defined |-> FALSE, sagemaker |-> Absent(<<>>),
     huggingfaceApiSecretArn |-> Absent(""), sagemakerSchedule |-> Absent(FALSE)]

Configs ==
    {[llms |-> NoLlms]} \cup
    {[llms |-> LlmsOf(sm, arn, sched)] :
        sm \in SagemakerValues, arn \in SecretArnValues, sched \in ScheduleValues}

\* JavaScript truthiness of an optional string.
TruthyString(opt) == opt.defined /\ opt.value # ""

\* JavaScript truthiness of sagemakerSchedule?.enabled.
TruthyEnabled(sched) == sched.defined /\ sched.value

AlphaNumerics == "abcdefghijklmnopqrstuvwxyzABCDEFGHIJKLMNOPQRSTUVWXYZ0123456789"

IsAlphaNumeric(c) == \E i \in 1..Len(AlphaNumerics) : SubSeq(AlphaNumerics, i, i) = c

\* Whether Secret.fromSecretCompleteArn accepts the string: an ARN that ends
\* in '-' and six letters or digits.  Any other string makes it raise.
SecretArnAccepted(arn) ==
    /\ StartsWith(arn, "arn:")
    /\ Len(arn) >= 7
    /\ SubSeq(arn, Len(arn) - 6, Len(arn) - 6) = "-"
    /\ \A k \in (Len(arn) - 5)..Len(arn) : IsAlphaNumeric(SubSeq(arn, k, k))

\* Array.prototype.includes.
Includes(list, x) == \E i \in 1..Len(list) : list[i] = x

(***************************************************************************)
(* The state of one construction.                                          *)
(***************************************************************************)
VARIABLES
    config,              \* props.config
    pc,                  \* the constructor's position
    error,               \* the error the constructor ended in, "" when none
    hfTokenSecret,       \* the local hfTokenSecret
    endpoints,           \* the JumpStartSageMakerEndpoint constructs created
    suppressions,        \* the NagSuppressions.addResourceSuppressions calls
    models,              \* the local array models
    modelsParameter,     \* the local modelsParameter (ssm.StringParameter)
    this,                \* which of this.models / this.modelsParameter are assigned
    schedulerRole,       \* the local schedulerRole (iam.Role)
    schedules,           \* the createStartSchedule / createStopSchedule calls
    index,               \* the position of models.forEach
    trace,               \* the steps taken, in order
    previous,            \* the outcome of the previous synthesis
    resynths             \* how many times the stack was synthesised again

vars == <<config, pc, error, hfTokenSecret, endpoints, suppressions, models,
          modelsParameter, this, schedulerRole, schedules, index, trace,
          previous, resynths>>

NoSecret    == [defined |-> FALSE, id |-> "", arn |-> ""]
NoParameter == [defined |-> FALSE, id |-> "", stringValue |-> ""]
NoRole      == [defined |-> FALSE, id |-> "", assumedBy |-> "", description |-> "",
                managedPolicies |-> <<>>]
NoPrevious  == [defined |-> FALSE, config |-> [llms |-> NoLlms], outcome |-> "",
                models |-> <<>>, parameter |-> NoParameter, endpoints |-> <<>>,
                schedulerRole |-> NoRole, schedules |-> <<>>]

\* super(scope, id); const models = []; let hfTokenSecret;
Fresh ==
    /\ pc = "readConfig"
    /\ error = ""
    /\ hfTokenSecret = NoSecret
    /\ endpoints = <<>>
    /\ suppressions = <<>>
    /\ models = <<>>
    /\ modelsParameter = NoParameter
    /\ this = [models |-> FALSE, modelsParameter |-> FALSE]
    /\ schedulerRole = NoRole
    /\ schedules = <<>>
    /\ index = 0
    /\ trace = <<>>

Init ==
    /\ config \in Configs
    /\ Fresh
    /\ previous = NoPrevious
    /\ resynths = 0

\* An uncaught TypeError ends the constructor; nothing after it runs.
Throw(what) ==
    /\ pc' = "error"
    /\ error' = what

(***************************************************************************)
(* The resources the constructor declares.                                 *)
(***************************************************************************)
FALCON_LITE_2_MODEL_ID == "Amazon/FalconLite2"
ZEPHYR_7B_MODEL_ID     == "HuggingFaceH4/zephyr-7b-beta"

FALCON_LITE_2_ENDPOINT_NAME == EndpointNameOf(FALCON_LITE_2_MODEL_ID)
ZEPHYR_7B_ENDPOINT_NAME     == EndpointNameOf(ZEPHYR_7B_MODEL_ID)

FalconInstanceCount     == 3
ZephyrInstanceCount     == 3
MaxInputTokens          == 10000
MaxTotalTokens          == 24000
MaxBatchTotalTokens     == 24000
SmNumGpus               == 4
MaxConcurrentRequests   == 4

\* The props of new JumpStartSageMakerEndpoint(this, "Falcon-Lite2", ...).
FalconLite2Props ==
    [model         |-> "HUGGINGFACE_LLM_AMAZON_FALCONLITE2_1_1_0",
     instanceType  |-> "ML_G5_48XLARGE",
     instanceCount |-> FalconInstanceCount,
     endpointName  |-> FALCON_LITE_2_ENDPOINT_NAME,
     environment   |->
        << <<"MAX_INPUT_TOKENS", JSONStringify(JNumber(MaxInputTokens))>>,
           <<"MAX_TOTAL_TOKENS", JSONStringify(JNumber(MaxTotalTokens))>>,
           <<"MAX_BATCH_TOTAL_TOKENS", JSONStringify(JNumber(MaxBatchTotalTokens))>>,
           <<"SM_NUM_GPUS", JSONStringify(JNumber(SmNumGpus))>>,
           <<"MAX_CONCURRENT_REQUESTS", JSONStringify(JNumber(MaxConcurrentRequests))>>,
           <<"SAGEMAKER_STREAMING_ENABLED", "true">>,
           <<"SAGEMAKER_CONTAINER_LOG_LEVEL", "INFO">> >>]

\* Faulty variant: instanceCount left at one.
Zephyr7bPropsSingleInstance ==
    [model         |-> "HUGGINGFACE_LLM_HUGGINGFACEH4_ZEPHYR_7B_BETA_1_1_0",
     instanceType  |-> "ML_G5_24XLARGE",
     instanceCount |-> 1,
     endpointName  |-> ZEPHYR_7B_ENDPOINT_NAME,
     environment   |-> <<>>]

\* Faulty variant: the imported secret reaches the endpoint's environment.
Zephyr7bPropsWithToken ==
    [model         |-> "HUGGINGFACE_LLM_HUGGINGFACEH4_ZEPHYR_7B_BETA_1_1_0",
     instanceType  |-> "ML_G5_24XLARGE",
     instanceCount |-> ZephyrInstanceCount,
     endpointName  |-> ZEPHYR_7B_ENDPOINT_NAME,
     environment   |-> IF hfTokenSecret.defined
                       THEN << <<"HUGGING_FACE_HUB_TOKEN", hfTokenSecret.arn>> >>
                       ELSE <<>>]

\* The props of new JumpStartSageMakerEndpoint(this, "Zephyr7b", ...).
Zephyr7bProps ==
    [model         |-> "HUGGINGFACE_LLM_HUGGINGFACEH4_ZEPHYR_7B_BETA_1_1_0",
     instanceType  |-> "ML_G5_24XLARGE",
     instanceCount |-> ZephyrInstanceCount,
     endpointName  |-> ZEPHYR_7B_ENDPOINT_NAME,
     environment   |-> <<>>]

\* The construct new JumpStartSageMakerEndpoint(this, id, props) returns: it
\* keeps its props, owns an execution role and a CfnEndpoint that the
\* library names 'jumpstart-' + props.endpointName.
JumpStartSageMakerEndpoint(id, props) ==
    [id          |-> id,
     props       |-> props,
     role        |-> id \o "/Role",
     cfnEndpoint |-> [id |-> id \o "/Endpoint",
                      endpointName |-> "jumpstart-" \o props.endpointName]]

\* The descriptor pushed for FalconLite2.
FalconLite2Descriptor(endpoint) ==
    [name                       |-> JumpstartName(FALCON_LITE_2_ENDPOINT_NAME),
     endpoint                   |-> endpoint.cfnEndpoint,
     responseStreamingSupported |-> TRUE,
     inputModalities            |-> <<Modality_Text>>,
     outputModalities           |-> <<Modality_Text>>,
     interface                  |-> ModelInterface_LangChain,
     ragSupported               |-> TRUE]

\* The descriptor pushed for Zephyr7b.
Zephyr7bDescriptor(endpoint) ==
    [name                       |-> JumpstartName(ZEPHYR_7B_ENDPOINT_NAME),
     endpoint                   |-> endpoint.cfnEndpoint,
     responseStreamingSupported |-> FALSE,
     inputModalities            |-> <<Modality_Text>>,
     outputModalities           |-> <<Modality_Text>>,
     interface                  |-> ModelInterface_LangChain,
     ragSupported               |-> TRUE]

\* Faulty variant: endpoint: model.endpoint, the resource instead of its name.
ParameterEntryWithResource(model) ==
    JObject(<< <<"name", JString(model.name)>>,
               <<"endpoint", JObject(<< <<"id", JString(model.endpoint.id)>>,
                                        <<"endpointName", JString(model.endpoint.endpointName)>> >>)>>,
               <<"responseStreamingSupported", JBool(model.responseStreamingSupported)>>,
               <<"inputModalities", JArray(JStrings(model.inputModalities))>>,
               <<"outputModalities", JArray(JStrings(model.outputModalities))>>,
               <<"interface", JString(model.interface)>>,
               <<"ragSupported", JBool(model.ragSupported)>> >>)

\* The object models.map builds for one descriptor.
ParameterEntry(model) ==
    JObject(<< <<"name", JString(model.name)>>,
               <<"endpoint", JString(model.endpoint.endpointName)>>,
               <<"responseStreamingSupported", JBool(model.responseStreamingSupported)>>,
               <<"inputModalities", JArray(JStrings(model.inputModalities))>>,
               <<"outputModalities", JArray(JStrings(model.outputModalities))>>,
               <<"interface", JString(model.interface)>>,
               <<"ragSupported", JBool(model.ragSupported)>> >>)

\* models.map((model) => ({...}))
ParameterEntries(ms) == [i \in 1..Len(ms) |-> ParameterEntry(ms[i])]

\* Faulty variant: an empty list is written as the empty string.
ModelsParameterValueSkipEmpty(ms) ==
    IF Len(ms) = 0 THEN "" ELSE JSONStringify(JArray(ParameterEntries(ms)))

\* JSON.stringify(models.map(...)).
ModelsParameterValue(ms) == JSONStringify(JArray(ParameterEntries(ms)))

\* Faulty variant: the AwsSolutions-IAM4 entry is left out.
NagSuppressionIam5Only(role) ==
    [role |-> role, ids |-> <<"AwsSolutions-IAM5">>, applyToChildren |-> TRUE]

\* The suppression suppressCdkNagWarningForEndpointRole adds to a role.
NagSuppression(role) ==
    [role |-> role, ids |-> <<"AwsSolutions-IAM4", "AwsSolutions-IAM5">>,
     applyToChildren |-> TRUE]

\* createStartSchedule / createStopSchedule (lib/models/sagemaker-schedule):
\* one schedule of the given action for the endpoint, run under the role.
CreateStartSchedule(endpoint, role) ==
    [action |-> "start", endpoint |-> endpoint.endpointName, role |-> role.id]

CreateStopSchedule(endpoint, role) ==
    [action |-> "stop", endpoint |-> endpoint.endpointName, role |-> role.id]

Last(q) == q[Len(q)]

(***************************************************************************)
(* The constructor, statement by statement.                                *)
(***************************************************************************)
\* props.config.llms.huggingfaceApiSecretArn read on a missing llms.
SecretAccessThrows(cfg) == ~cfg.llms.defined

\* if (props.config.llms.huggingfaceApiSecretArn)
SecretWanted(cfg) == TruthyString(cfg.llms.huggingfaceApiSecretArn)

\* Faulty variant: llms?.sagemaker?.includes(...), which never throws.
SagemakerAccessOptional(cfg) == FALSE

\* props.config.llms?.sagemaker.includes(...) on a present llms without sagemaker.
SagemakerAccessThrows(cfg) == cfg.llms.defined /\ ~cfg.llms.sagemaker.defined

\* Faulty variant: only the first element of the list is compared.
SagemakerIncludesFirstOnly(cfg, kind) ==
    cfg.llms.defined /\ Len(cfg.llms.sagemaker.value) > 0
        /\ cfg.llms.sagemaker.value[1] = kind

\* props.config.llms?.sagemaker.includes(kind)
SagemakerIncludes(cfg, kind) ==
    cfg.llms.defined /\ Includes(cfg.llms.sagemaker.value, kind)

\* Faulty variant: the models.length > 0 test is left out.
ScheduleWantedIgnoringModels(ms, cfg) ==
    cfg.llms.defined /\ TruthyEnabled(cfg.llms.sagemakerSchedule)

\* models.length > 0 && props.config.llms?.sagemakerSchedule?.enabled
ScheduleWanted(ms, cfg) ==
    Len(ms) > 0 /\ cfg.llms.defined /\ TruthyEnabled(cfg.llms.sagemakerSchedule)

Log(event) == trace' = Append(trace, event)

\* Secret.fromSecretCompleteArn raises on the configured ARN.
SecretImportThrows(cfg) ==
    SecretWanted(cfg) /\ ~SecretArnAccepted(cfg.llms.huggingfaceApiSecretArn.value)

\* Lines 39-42: the secret is imported when the ARN is truthy; the import
\* raises when the ARN is not a complete secret ARN.
ReadConfig ==
    /\ pc = "readConfig"
    /\ IF SecretAccessThrows(config)
       THEN /\ Throw("TypeError")
            /\ UNCHANGED <<hfTokenSecret, trace>>
       ELSE IF SecretImportThrows(config)
       THEN /\ Throw("Error")
            /\ UNCHANGED <<hfTokenSecret, trace>>
       ELSE /\ pc' = "falconCheck"
            /\ error' = error
            /\ IF SecretWanted(config)
               THEN /\ hfTokenSecret' =
                          [defined |-> TRUE, id |-> "HFTokenSecret",
                           arn |-> config.llms.huggingfaceApiSecretArn.value]
                    /\ Log(<<"secret", "HFTokenSecret">>)
               ELSE UNCHANGED <<hfTokenSecret, trace>>
    /\ UNCHANGED <<config, endpoints, suppressions, models, modelsParameter, this,
                   schedulerRole, schedules, index, previous, resynths>>

\* An if (props.config.llms?.sagemaker.includes(kind)) test.
CheckModel(here, kind, yes, no) ==
    /\ pc = here
    /\ IF SagemakerAccessThrows(config)
       THEN Throw("TypeError")
       ELSE /\ pc' = IF SagemakerIncludes(config, kind) THEN yes ELSE no
            /\ error' = error
    /\ UNCHANGED <<config, hfTokenSecret, endpoints, suppressions, models,
                   modelsParameter, this, schedulerRole, schedules, index, trace,
                   previous, resynths>>

\* A new JumpStartSageMakerEndpoint(this, id, props) statement.
CreateEndpoint(here, id, props, next) ==
    /\ pc = here
    /\ endpoints' = Append(endpoints, JumpStartSageMakerEndpoint(id, props))
    /\ Log(<<"endpoint", id>>)
    /\ pc' = next
    /\ UNCHANGED <<config, error, hfTokenSecret, suppressions, models,
                   modelsParameter, this, schedulerRole, schedules, index,
                   previous, resynths>>

\* this.suppressCdkNagWarningForEndpointRole(role)
SuppressRole(here, role, next) ==
    /\ pc = here
    /\ suppressions' = Append(suppressions, NagSuppression(role))
    /\ Log(<<"suppress", role>>)
    /\ pc' = next
    /\ UNCHANGED <<config, error, hfTokenSecret, endpoints, models,
                   modelsParameter, this, schedulerRole, schedules, index,
                   previous, resynths>>

\* Faulty variant: models.unshift(descriptor).
PushModelFront(here, descriptor, next) ==
    /\ pc = here
    /\ models' = <<descriptor>> \o models
    /\ Log(<<"push", descriptor.name>>)
    /\ pc' = next
    /\ UNCHANGED <<config, error, hfTokenSecret, endpoints, suppressions,
                   modelsParameter, this, schedulerRole, schedules, index,
                   previous, resynths>>

\* models.push(descriptor)
PushModel(here, descriptor, next) ==
    /\ pc = here
    /\ models' = Append(models, descriptor)
    /\ Log(<<"push", descriptor.name>>)
    /\ pc' = next
    /\ UNCHANGED <<config, error, hfTokenSecret, endpoints, suppressions,
                   modelsParameter, this, schedulerRole, schedules, index,
                   previous, resynths>>

\* Lines 44-46.
FalconCheck ==
    /\ pc = "falconCheck"
    /\ CheckModel("falconCheck", FalconLite2, "falconEndpoint", "zephyrCheck")

\* Lines 47-67.
FalconEndpoint ==
    /\ pc = "falconEndpoint"
    /\ CreateEndpoint("falconEndpoint", "Falcon-Lite2", FalconLite2Props, "falconSuppress")

\* Line 69.
FalconSuppress ==
    /\ pc = "falconSuppress"
    /\ SuppressRole("falconSuppress", Last(endpoints).role, "falconPush")

\* Lines 71-79.
FalconPush ==
    /\ pc = "falconPush"
    /\ PushModel("falconPush", FalconLite2Descriptor(Last(endpoints)), "zephyrCheck")

\* Lines 83-85.
ZephyrCheck ==
    /\ pc = "zephyrCheck"
    /\ CheckModel("zephyrCheck", Zephyr7b, "zephyrEndpoint", "modelsParameter")

\* Lines 86-97.
ZephyrEndpoint ==
    /\ pc = "zephyrEndpoint"
    /\ CreateEndpoint("zephyrEndpoint", "Zephyr7b", Zephyr7bProps, "zephyrSuppress")

\* Line 99.
ZephyrSuppress ==
    /\ pc = "zephyrSuppress"
    /\ SuppressRole("zephyrSuppress", Last(endpoints).role, "zephyrPush")

\* Lines 101-109.
ZephyrPush ==
    /\ pc = "zephyrPush"
    /\ PushModel("zephyrPush", Zephyr7bDescriptor(Last(endpoints)), "modelsParameter")

\* Lines 112-124.
CreateModelsParameter ==
    /\ pc = "modelsParameter"
    /\ modelsParameter' = [defined |-> TRUE, id |-> "ModelsParameter",
                           stringValue |-> ModelsParameterValue(models)]
    /\ Log(<<"parameter", "ModelsParameter">>)
    /\ pc' = "assign"
    /\ UNCHANGED <<config, error, hfTokenSecret, endpoints, suppressions, models,
                   this, schedulerRole, schedules, index, previous, resynths>>

\* Lines 126-127: this.models = models; this.modelsParameter = modelsParameter.
AssignFields ==
    /\ pc = "assign"
    /\ this' = [models |-> TRUE, modelsParameter |-> TRUE]
    /\ pc' = "scheduleGuard"
    /\ UNCHANGED <<config, error, hfTokenSecret, endpoints, suppressions, models,
                   modelsParameter, schedulerRole, schedules, index, trace,
                   previous, resynths>>

\* Line 129.
ScheduleGuard ==
    /\ pc = "scheduleGuard"
    /\ pc' = IF ScheduleWanted(models, config) THEN "schedulerRole" ELSE "done"
    /\ UNCHANGED <<config, error, hfTokenSecret, endpoints, suppressions, models,
                   modelsParameter, this, schedulerRole, schedules, index, trace,
                   previous, resynths>>

\* Lines 131-134.
CreateSchedulerRole ==
    /\ pc = "schedulerRole"
    /\ schedulerRole' = [defined |-> TRUE, id |-> "SchedulerRole",
                         assumedBy |-> "scheduler.amazonaws.com",
                         description |-> "Role for Scheduler to interact with SageMaker",
                         managedPolicies |-> <<>>]
    /\ Log(<<"role", "SchedulerRole">>)
    /\ pc' = "managedPolicy"
    /\ UNCHANGED <<config, error, hfTokenSecret, endpoints, suppressions, models,
                   modelsParameter, this, schedules, index, previous, resynths>>

\* Line 136.
AddManagedPolicy ==
    /\ pc = "managedPolicy"
    /\ schedulerRole' =
          [schedulerRole EXCEPT !.managedPolicies = Append(@, "AmazonSageMakerFullAccess")]
    /\ Log(<<"policy", "AmazonSageMakerFullAccess">>)
    /\ pc' = "schedulerSuppress"
    /\ UNCHANGED <<config, error, hfTokenSecret, endpoints, suppressions, models,
                   modelsParameter, this, schedules, index, previous, resynths>>

\* Line 137.
SchedulerSuppress ==
    /\ pc = "schedulerSuppress"
    /\ SuppressRole("schedulerSuppress", schedulerRole.id, "forEach")

\* Line 139: models.forEach starts at the first element, or ends at once.
ForEachModel ==
    /\ pc = "forEach"
    /\ index' = 1
    /\ pc' = IF Len(models) > 0 THEN "startSchedule" ELSE "done"
    /\ UNCHANGED <<config, error, hfTokenSecret, endpoints, suppressions, models,
                   modelsParameter, this, schedulerRole, schedules, trace,
                   previous, resynths>>

\* Line 140.
StartSchedule ==
    /\ pc = "startSchedule"
    /\ schedules' = Append(schedules, CreateStartSchedule(models[index].endpoint, schedulerRole))
    /\ Log(<<"start", models[index].endpoint.endpointName>>)
    /\ pc' = "stopSchedule"
    /\ UNCHANGED <<config, error, hfTokenSecret, endpoints, suppressions, models,
                   modelsParameter, this, schedulerRole, index, previous, resynths>>

\* Lines 141-142: the stop schedule, then the next element or the end.
StopSchedule ==
    /\ pc = "stopSchedule"
    /\ schedules' = Append(schedules, CreateStopSchedule(models[index].endpoint, schedulerRole))
    /\ Log(<<"stop", models[index].endpoint.endpointName>>)
    /\ index' = index + 1
    /\ pc' = IF index < Len(models) THEN "startSchedule" ELSE "done"
    /\ UNCHANGED <<config, error, hfTokenSecret, endpoints, suppressions, models,
                   modelsParameter, this, schedulerRole, previous, resynths>>

\* What a finished construction leaves behind.
Outcome ==
    [defined       |-> TRUE,
     config        |-> config,
     outcome       |-> pc,
     models        |-> models,
     parameter     |-> modelsParameter,
     endpoints     |-> endpoints,
     schedulerRole |-> schedulerRole,
     schedules     |-> schedules]

\* The stack is synthesised again after only huggingfaceApiSecretArn was
\* edited: the constructor runs from its first line on the edited
\* configuration, and the earlier outcome is kept for comparison.
Resynth ==
    /\ pc \in {"done", "error"}
    /\ resynths < MaxResynth
    /\ config.llms.defined
    /\ \E arn \in SecretArnValues \ {config.llms.huggingfaceApiSecretArn} :
          config' = [config EXCEPT !.llms.huggingfaceApiSecretArn = arn]
    /\ previous' = Outcome
    /\ resynths' = resynths + 1
    /\ pc' = "readConfig"
    /\ error' = ""
    /\ hfTokenSecret' = NoSecret
    /\ endpoints' = <<>>
    /\ suppressions' = <<>>
    /\ models' = <<>>
    /\ modelsParameter' = NoParameter
    /\ this' = [models |-> FALSE, modelsParameter |-> FALSE]
    /\ schedulerRole' = NoRole
    /\ schedules' = <<>>
    /\ index' = 0
    /\ trace' = <<>>

Next ==
    \/ ReadConfig
    \/ FalconCheck
    \/ FalconEndpoint
    \/ FalconSuppress
    \/ FalconPush
    \/ ZephyrCheck
    \/ ZephyrEndpoint
    \/ ZephyrSuppress
    \/ ZephyrPush
    \/ CreateModelsParameter
    \/ AssignFields
    \/ ScheduleGuard
    \/ CreateSchedulerRole
    \/ AddManagedPolicy
    \/ SchedulerSuppress
    \/ ForEachModel
    \/ StartSchedule
    \/ StopSchedule
    \/ Resynth

Spec == Init /\ [][Next]_vars

(***************************************************************************)
(* Reading the outcome: the parameter as its consumer decodes it, and the  *)
(* positions of steps in the trace.                                        *)
(***************************************************************************)
\* The value a reader of the parameter obtains.
Decoded == JSONParse(modelsParameter.stringValue)

\* The elements of the decoded array.
Entries == Decoded.a

\* The kinds enabled by config.llms.sagemaker.
Enabled(kind) ==
    config.llms.defined /\ config.llms.sagemaker.defined
        /\ Includes(config.llms.sagemaker.value, kind)

Range(q) == {q[i] : i \in 1..Len(q)}

\* How often an event occurs in the trace, and where it occurs first.
Count(event) == Cardinality({i \in 1..Len(trace) : trace[i] = event})
Pos(event) ==
    IF Count(event) = 0 THEN 0
    ELSE CHOOSE i \in 1..Len(trace) :
            trace[i] = event /\ \A j \in 1..(i - 1) : trace[j] # event

\* When both events occurred, a occurred first.
Before(a, b) == (Pos(a) > 0 /\ Pos(b) > 0) => Pos(a) < Pos(b)

\* s with every occurrence of the character c replaced by d.
RECURSIVE ReplaceAll(_, _, _)
ReplaceAll(s, c, d) ==
    IF s = "" THEN ""
    ELSE (IF Head(s) = c THEN d ELSE Head(s)) \o ReplaceAll(Tail(s), c, d)

SevenKeys ==
    <<"name", "endpoint", "responseStreamingSupported", "inputModalities",
      "outputModalities", "interface", "ragSupported">>

\* The decoded entries es whose name is the given one.
EntriesNamed(es, name) == {i \in 1..Len(es) : Get(es[i], "name") = JString(name)}

\* A decoded entry with the fixed fields of a descriptor.
HasDescriptorFields(e, name, streaming) ==
    /\ Get(e, "name") = JString(name)
    /\ Get(e, "responseStreamingSupported") = JBool(streaming)
    /\ Get(e, "inputModalities") = JArray(<<JString(Modality_Text)>>)
    /\ Get(e, "outputModalities") = JArray(<<JString(Modality_Text)>>)
    /\ Get(e, "interface") = JString(ModelInterface_LangChain)
    /\ Get(e, "ragSupported") = JBool(TRUE)

\* Among the decoded entries es: exactly one descriptor for an enabled
\* flag, none for a disabled one.
DescriptorFor(es, kind, name, streaming) ==
    LET named == EntriesNamed(es, name)
    IN  IF Enabled(kind)
        THEN /\ Cardinality(named) = 1
             /\ \A i \in named : HasDescriptorFields(es[i], name, streaming)
        ELSE named = {}

(***************************************************************************)
(* C1: when config.llms.sagemaker contains FalconLite2 (Zephyr7b), once or *)
(* several times, the serialised parameter holds exactly one descriptor    *)
(* named 'jumpstart-Amazon-FalconLite2' with streaming true                *)
(* ('jumpstart-HuggingFaceH4-zephyr-7b-beta' with streaming false), with   *)
(* input and output modalities [Text], interface LangChain and             *)
(* ragSupported true; when the flag is not in the list the parameter holds *)
(* no descriptor of that name.                                             *)
(***************************************************************************)
C1_OneDescriptorPerFlag ==
    modelsParameter.defined =>
        LET es == Entries
        IN  /\ DescriptorFor(es, FalconLite2, "jumpstart-Amazon-FalconLite2", TRUE)
            /\ DescriptorFor(es, Zephyr7b, "jumpstart-HuggingFaceH4-zephyr-7b-beta", FALSE)

\* FalconLite2 listed twice, Zephyr7b not listed: one descriptor in the
\* parameter of a finished construction.
C1_Witness ==
    /\ pc = "done"
    /\ config.llms.sagemaker.value = <<FalconLite2, FalconLite2>>
    /\ Len(Entries) = 1
    /\ HasDescriptorFields(Entries[1], "jumpstart-Amazon-FalconLite2", TRUE)

(***************************************************************************)
(* C2: whenever the constructor completes, the stringValue of the          *)
(* parameter is a JSON array whose every element is an object with exactly *)
(* the seven keys name, endpoint, responseStreamingSupported,              *)
(* inputModalities, outputModalities, interface, ragSupported, and         *)
(* endpoint is the endpoint's name (a string), not the endpoint resource.  *)
(***************************************************************************)
C2_ParameterShape ==
    pc = "done" =>
        LET d == Decoded
        IN  /\ d.t = "array"
            /\ JSONStringify(d) = modelsParameter.stringValue
            /\ \A i \in 1..Len(d.a) :
                  /\ d.a[i].t = "object"
                  /\ Len(Keys(d.a[i])) = 7
                  /\ Range(Keys(d.a[i])) = Range(SevenKeys)
                  /\ Get(d.a[i], "endpoint").t = "string"
                  /\ \E j \in 1..Len(endpoints) :
                        Get(d.a[i], "endpoint").s = endpoints[j].cfnEndpoint.endpointName

C2_Witness ==
    /\ pc = "done"
    /\ Len(Entries) = 2
    /\ Get(Entries[2], "endpoint") = JString("jumpstart-HuggingFaceH4-zephyr-7b-beta")

\* The model identifier a descriptor was built from, by the construct that
\* owns its endpoint.
ModelIdOf(descriptor) ==
    IF descriptor.endpoint.id = "Falcon-Lite2/Endpoint"
    THEN FALCON_LITE_2_MODEL_ID
    ELSE ZEPHYR_7B_MODEL_ID

\* 'jumpstart-' + the identifier with every '/' and every '.' replaced by '-'.
DerivedName(modelId) == "jumpstart-" \o ReplaceAll(ReplaceAll(modelId, "/", "-"), ".", "-")

(***************************************************************************)
(* C3: every descriptor's name is a function of its model identifier       *)
(* alone, 'jumpstart-' + the identifier with every '/' and '.' replaced by *)
(* '-': it is the same under every configuration and in every synthesis,   *)
(* and the names of the two supported models differ.                       *)
(***************************************************************************)
C3_NameFromModelId ==
    /\ \A i \in 1..Len(models) : models[i].name = DerivedName(ModelIdOf(models[i]))
    /\ \A i, j \in 1..Len(models) : i # j => models[i].name # models[j].name
    /\ DerivedName(FALCON_LITE_2_MODEL_ID) # DerivedName(ZEPHYR_7B_MODEL_ID)
    /\ \A i \in 1..Len(models) : \A j \in 1..Len(previous.models) :
          models[i].endpoint.id = previous.models[j].endpoint.id
              => models[i].name = previous.models[j].name

\* Both descriptors pushed, in a second synthesis after one that had both.
C3_Witness ==
    /\ Len(models) = 2
    /\ Len(previous.models) = 2
    /\ models[1].name = "jumpstart-Amazon-FalconLite2"
    /\ models[2].name = "jumpstart-HuggingFaceH4-zephyr-7b-beta"

\* models.length > 0 and a truthy sagemakerSchedule.enabled, on the outcome.
SchedulingExpected ==
    Len(endpoints) > 0 /\ config.llms.defined
        /\ TruthyEnabled(config.llms.sagemakerSchedule)

\* The schedules of one action created for one endpoint.
SchedulesFor(action, endpointName) ==
    {k \in 1..Len(schedules) :
        schedules[k].action = action /\ schedules[k].endpoint = endpointName}

(***************************************************************************)
(* C4: the scheduler role and the schedules exist if and only if at least  *)
(* one endpoint was created and sagemakerSchedule.enabled is truthy; then  *)
(* exactly one scheduler role is created, shared by all schedules, and     *)
(* every model of the list has exactly one start and exactly one stop      *)
(* schedule for its endpoint; otherwise no role and no schedule exists.    *)
(***************************************************************************)
C4_SchedulesIffEnabled ==
    /\ schedulerRole.defined => SchedulingExpected
    /\ Len(schedules) > 0 => schedulerRole.defined
    /\ Count(<<"role", "SchedulerRole">>) = IF schedulerRole.defined THEN 1 ELSE 0
    /\ pc = "done" =>
          IF SchedulingExpected
          THEN /\ schedulerRole.defined
               /\ Len(schedules) = 2 * Len(models)
               /\ \A k \in 1..Len(schedules) : schedules[k].role = schedulerRole.id
               /\ \A i \in 1..Len(models) :
                     /\ Cardinality(SchedulesFor("start", models[i].endpoint.endpointName)) = 1
                     /\ Cardinality(SchedulesFor("stop", models[i].endpoint.endpointName)) = 1
          ELSE ~schedulerRole.defined /\ schedules = <<>>

\* Two models scheduled under one role.
C4_Witness ==
    /\ pc = "done"
    /\ schedulerRole.defined
    /\ Len(models) = 2
    /\ Len(schedules) = 4

\* The construct id of the endpoint of a supported kind.
ConstructIdOf(kind) == IF kind = FalconLite2 THEN "Falcon-Lite2" ELSE "Zephyr7b"

EndpointsOf(kind) == {j \in 1..Len(endpoints) : endpoints[j].id = ConstructIdOf(kind)}

(***************************************************************************)
(* C5: an endpoint is instantiated for a supported kind if and only if the *)
(* kind appears in config.llms.sagemaker; the number of endpoints is the   *)
(* number of distinct enabled kinds among FalconLite2 and Zephyr7b, each   *)
(* with its fixed instance type and instanceCount 3 whatever the rest of   *)
(* the configuration; any other kind in the list creates no endpoint and   *)
(* no descriptor.                                                          *)
(***************************************************************************)
C5_EndpointPerEnabledKind ==
    /\ \A kind \in {FalconLite2, Zephyr7b} :
          /\ EndpointsOf(kind) # {} => Enabled(kind)
          /\ Cardinality(EndpointsOf(kind)) <= 1
    /\ \A j \in 1..Len(endpoints) :
          /\ endpoints[j].id \in {"Falcon-Lite2", "Zephyr7b"}
          /\ endpoints[j].props.instanceCount = 3
          /\ endpoints[j].props.instanceType =
                IF endpoints[j].id = "Falcon-Lite2" THEN "ML_G5_48XLARGE"
                ELSE "ML_G5_24XLARGE"
    /\ Len(models) <= Len(endpoints)
    /\ pc = "done" =>
          /\ \A kind \in {FalconLite2, Zephyr7b} : Enabled(kind) => EndpointsOf(kind) # {}
          /\ Len(endpoints) = Cardinality({k \in {FalconLite2, Zephyr7b} : Enabled(k)})
          /\ Len(models) = Len(endpoints)

\* A list with an unsupported kind and Zephyr7b: one endpoint, one descriptor.
C5_Witness ==
    /\ pc = "done"
    /\ config.llms.sagemaker.value = <<OtherModel, Zephyr7b>>
    /\ Len(endpoints) = 1
    /\ Len(models) = 1
    /\ endpoints[1].props.instanceCount = 3

\* Element i of the decoded parameter carries the fields of models[i].
EntryMatches(e, model) ==
    /\ Get(e, "name") = JString(model.name)
    /\ Get(e, "endpoint") = JString(model.endpoint.endpointName)
    /\ Get(e, "responseStreamingSupported") = JBool(model.responseStreamingSupported)
    /\ Get(e, "inputModalities") = JArray(JStrings(model.inputModalities))
    /\ Get(e, "outputModalities") = JArray(JStrings(model.outputModalities))
    /\ Get(e, "interface") = JString(model.interface)
    /\ Get(e, "ragSupported") = JBool(model.ragSupported)

ParameterMirrorsModels ==
    /\ modelsParameter.defined =>
          LET es == Entries
          IN  /\ Len(es) = Len(models)
              /\ \A i \in 1..Len(models) : EntryMatches(es[i], models[i])
    /\ \A i, j \in 1..Len(models) :
          (/\ ModelIdOf(models[i]) = FALCON_LITE_2_MODEL_ID
           /\ ModelIdOf(models[j]) = ZEPHYR_7B_MODEL_ID) => i < j
    /\ (this.models \/ this.modelsParameter) => modelsParameter.defined

ListFrozenAfterParameter ==
    (modelsParameter.defined /\ modelsParameter'.defined)
        => (models' = models /\ modelsParameter' = modelsParameter)

(***************************************************************************)
(* C6: the serialised parameter corresponds one for one, in the same       *)
(* order, to this.models: same length, element i carries the name,         *)
(* endpoint name, streaming flag, modalities, interface and ragSupported   *)
(* of models[i]; FalconLite2 precedes Zephyr7b whatever the order of the   *)
(* flags; and once the parameter exists no step (the schedule steps        *)
(* included) changes the list or the parameter.                            *)
(***************************************************************************)
C6_ParameterMirrorsList == [](ParameterMirrorsModels) /\ [][ListFrozenAfterParameter]_vars

\* Flags given as Zephyr7b, FalconLite2; schedules created; list unchanged.
C6_Witness ==
    /\ pc = "done"
    /\ config.llms.sagemaker.value = <<Zephyr7b, FalconLite2>>
    /\ Len(schedules) = 4
    /\ this.models
    /\ Len(Entries) = 2
    /\ Get(Entries[1], "name") = JString("jumpstart-Amazon-FalconLite2")

\* Nothing but (possibly) the imported secret exists.
NothingCreated ==
    /\ endpoints = <<>>
    /\ suppressions = <<>>
    /\ models = <<>>
    /\ ~modelsParameter.defined
    /\ ~schedulerRole.defined
    /\ schedules = <<>>
    /\ ~this.models
    /\ ~this.modelsParameter

(***************************************************************************)
(* C7: a missing config.llms, or a missing config.llms.sagemaker under a   *)
(* present llms, ends the construction in an error raised at the first     *)
(* access; in that outcome no endpoint, parameter, scheduler role or       *)
(* schedule exists and this.models / this.modelsParameter are unassigned;  *)
(* no error is swallowed: the constructor never goes on past the failing   *)
(* access.                                                                 *)
(***************************************************************************)
C7_ConfigErrorsPropagate ==
    /\ ~config.llms.defined =>
          /\ pc \in {"readConfig", "error"}
          /\ ~hfTokenSecret.defined
          /\ NothingCreated
    /\ (config.llms.defined /\ ~config.llms.sagemaker.defined) =>
          /\ pc \in {"readConfig", "falconCheck", "error"}
          /\ NothingCreated
    /\ pc = "error" =>
          /\ error \in {"TypeError", "Error"}
          /\ NothingCreated
    /\ error = "TypeError" =>
          (~config.llms.defined \/ ~config.llms.sagemaker.defined)
    /\ error # "" => pc = "error"
    /\ (~config.llms.defined /\ pc = "error") => error = "TypeError"
    /\ (config.llms.defined /\ config.llms.sagemaker.defined /\ pc = "error") =>
          (error = "Error" /\ SecretImportThrows(config))

\* llms present without sagemaker: the secret was imported, then the first
\* includes test raised.
C7_Witness ==
    /\ pc = "error"
    /\ error = "TypeError"
    /\ config.llms.defined
    /\ ~config.llms.sagemaker.defined
    /\ hfTokenSecret.defined

\* The name of the endpoint of models[i].
EndpointNameAt(i) == models[i].endpoint.endpointName

\* No step is taken twice.
EachStepOnce == \A i, j \in 1..Len(trace) : i # j => trace[i] # trace[j]

\* The fixed order of the steps that were taken.
StepsInOrder ==
    /\ Before(<<"secret", "HFTokenSecret">>, <<"endpoint", "Falcon-Lite2">>)
    /\ Before(<<"secret", "HFTokenSecret">>, <<"endpoint", "Zephyr7b">>)
    /\ Before(<<"secret", "HFTokenSecret">>, <<"parameter", "ModelsParameter">>)
    /\ Before(<<"endpoint", "Falcon-Lite2">>, <<"endpoint", "Zephyr7b">>)
    /\ Before(<<"push", "jumpstart-Amazon-FalconLite2">>, <<"endpoint", "Zephyr7b">>)
    /\ Before(<<"push", "jumpstart-Amazon-FalconLite2">>, <<"parameter", "ModelsParameter">>)
    /\ Before(<<"push", "jumpstart-HuggingFaceH4-zephyr-7b-beta">>,
              <<"parameter", "ModelsParameter">>)
    /\ Before(<<"parameter", "ModelsParameter">>, <<"role", "SchedulerRole">>)
    /\ \A i \in 1..Len(models) :
          /\ Before(<<"role", "SchedulerRole">>, <<"start", EndpointNameAt(i)>>)
          /\ Before(<<"start", EndpointNameAt(i)>>, <<"stop", EndpointNameAt(i)>>)
          /\ \A j \in 1..Len(models) :
                i < j => Before(<<"stop", EndpointNameAt(i)>>, <<"start", EndpointNameAt(j)>>)
    /\ \A k \in 1..Len(trace) :
          trace[k][1] \in {"start", "stop"} => Pos(<<"role", "SchedulerRole">>) > 0
    /\ \A k \in 1..Len(trace) :
          trace[k][1] \in {"endpoint", "push"} =>
              (Pos(<<"parameter", "ModelsParameter">>) = 0
                  \/ k < Pos(<<"parameter", "ModelsParameter">>))

(***************************************************************************)
(* C8: on every successful run each step runs once, in the fixed order     *)
(* configuration read (with the optional secret import), FalconLite2       *)
(* endpoint, Zephyr7b endpoint, models parameter, then optionally the      *)
(* scheduler role followed by start then stop schedule per model in list   *)
(* order; the parameter is created exactly once, also when no model is     *)
(* enabled, and its value is then '[]'.                                    *)
(***************************************************************************)
C8_StepsOnceInOrder ==
    /\ EachStepOnce
    /\ StepsInOrder
    /\ pc = "done" =>
          /\ Count(<<"parameter", "ModelsParameter">>) = 1
          /\ modelsParameter.defined
          /\ (~Enabled(FalconLite2) /\ ~Enabled(Zephyr7b)) => modelsParameter.stringValue = "[]"
          /\ Len(schedules) > 0 =>
                /\ Len(schedules) = 2 * Len(models)
                /\ \A i \in 1..Len(models) :
                      /\ schedules[2 * i - 1].action = "start"
                      /\ schedules[2 * i - 1].endpoint = EndpointNameAt(i)
                      /\ schedules[2 * i].action = "stop"
                      /\ schedules[2 * i].endpoint = EndpointNameAt(i)

\* A finished run with only an unsupported kind listed and scheduling
\* enabled: the parameter was created once and holds '[]'.
C8_Witness ==
    /\ pc = "done"
    /\ config.llms.sagemaker.value = <<OtherModel>>
    /\ TruthyEnabled(config.llms.sagemakerSchedule)
    /\ Count(<<"parameter", "ModelsParameter">>) = 1
    /\ modelsParameter.stringValue = "[]"

\* The suppressions added to a role.
SuppressionsOf(role) == {k \in 1..Len(suppressions) : suppressions[k].role = role}

\* The role carries both rule ids.
Suppressed(role) ==
    \E k \in SuppressionsOf(role) :
        {"AwsSolutions-IAM4", "AwsSolutions-IAM5"} \subseteq Range(suppressions[k].ids)

\* The roles of the construct: one per endpoint, and the scheduler role.
Roles ==
    {endpoints[j].role : j \in 1..Len(endpoints)}
        \cup (IF schedulerRole.defined THEN {schedulerRole.id} ELSE {})

(***************************************************************************)
(* C9: every role the construct creates or takes from an endpoint has the  *)
(* suppressions AwsSolutions-IAM4 and AwsSolutions-IAM5 when construction  *)
(* finishes; an endpoint's role is suppressed right after the endpoint is  *)
(* created and before its descriptor is pushed; the scheduler role is      *)
(* suppressed after its managed policy is attached and before any schedule *)
(* uses it; no role of a model that is not enabled is suppressed.          *)
(***************************************************************************)
C9_RolesSuppressed ==
    /\ pc = "done" => \A r \in Roles : Suppressed(r)
    /\ \A k \in 1..Len(suppressions) :
          /\ suppressions[k].role \in Roles
          /\ Cardinality(SuppressionsOf(suppressions[k].role)) = 1
    /\ \A k \in 1..Len(trace) :
          /\ (trace[k][1] = "endpoint" /\ k < Len(trace)) =>
                trace[k + 1] = <<"suppress", trace[k][2] \o "/Role">>
          /\ trace[k][1] = "push" =>
                (k > 2 /\ trace[k - 1][1] = "suppress" /\ trace[k - 2][1] = "endpoint")
          /\ trace[k][1] = "endpoint" => pc # "done" \/ k < Len(trace)
    /\ \A j \in 1..Len(models) :
          \E e \in 1..Len(endpoints) :
              endpoints[e].cfnEndpoint = models[j].endpoint /\ Suppressed(endpoints[e].role)
    /\ Before(<<"policy", "AmazonSageMakerFullAccess">>, <<"suppress", "SchedulerRole">>)
    /\ Len(schedules) > 0 =>
          /\ Suppressed("SchedulerRole")
          /\ "AmazonSageMakerFullAccess" \in Range(schedulerRole.managedPolicies)
    /\ \A kind \in {FalconLite2, Zephyr7b} :
          ~Enabled(kind) => SuppressionsOf(ConstructIdOf(kind) \o "/Role") = {}

\* Zephyr7b alone with scheduling: its role and the scheduler role are
\* suppressed, the FalconLite2 role is not.
C9_Witness ==
    /\ pc = "done"
    /\ ~Enabled(FalconLite2)
    /\ Len(suppressions) = 2
    /\ Suppressed("Zephyr7b/Role")
    /\ Suppressed("SchedulerRole")

\* The other configuration differs from the current one at most in
\* huggingfaceApiSecretArn.
DiffersOnlyInSecretArn(other) ==
    /\ other.llms.defined
    /\ config.llms.defined
    /\ [other EXCEPT !.llms.huggingfaceApiSecretArn = config.llms.huggingfaceApiSecretArn]
          = config

\* huggingfaceApiSecretArn of a configuration is truthy and is refused by
\* Secret.fromSecretCompleteArn.
SecretArnRefused(cfg) == cfg.llms.defined /\ SecretImportThrows(cfg)

\* The finished previous synthesis and the finished current one left the
\* same outcome, models list, parameter, endpoints and schedule resources.
SameOutput ==
    /\ previous.outcome = pc
    /\ previous.models = models
    /\ previous.parameter = modelsParameter
    /\ previous.endpoints = endpoints
    /\ previous.schedulerRole = schedulerRole
    /\ previous.schedules = schedules

(***************************************************************************)
(* C10 as stated: the Hugging Face token secret is imported if and only if *)
(* config.llms.huggingfaceApiSecretArn is set, and two configurations that *)
(* differ only in huggingfaceApiSecretArn yield the same models list,      *)
(* serialised parameter, endpoints and schedule resources.  It fails: the  *)
(* empty string is set and imports nothing, and an ARN that is not         *)
(* complete ends the construction before anything is created.              *)
(***************************************************************************)
C10_Original ==
    /\ pc # "readConfig" =>
          (hfTokenSecret.defined <=>
              (config.llms.defined /\ config.llms.huggingfaceApiSecretArn.defined))
    /\ (pc \in {"done", "error"} /\ previous.defined
            /\ DiffersOnlyInSecretArn(previous.config)) => SameOutput

(***************************************************************************)
(* C10, amended: the Hugging Face token secret is imported if and only if  *)
(* config.llms.huggingfaceApiSecretArn is truthy (a non-empty string) and  *)
(* a complete secret ARN; an ARN that is truthy and not complete ends the  *)
(* construction in the error of the import, with nothing created; two      *)
(* configurations that differ only in huggingfaceApiSecretArn, neither     *)
(* with such a refused ARN, yield the same models list, serialised         *)
(* parameter, endpoints and schedule resources.                            *)
(***************************************************************************)
C10_SecretHasNoEffect ==
    /\ pc # "readConfig" =>
          (hfTokenSecret.defined <=>
              (/\ config.llms.defined
               /\ TruthyString(config.llms.huggingfaceApiSecretArn)
               /\ SecretArnAccepted(config.llms.huggingfaceApiSecretArn.value)))
    /\ hfTokenSecret.defined =>
          hfTokenSecret.arn = config.llms.huggingfaceApiSecretArn.value
    /\ SecretArnRefused(config) =>
          /\ pc \in {"readConfig", "error"}
          /\ pc = "error" => error = "Error"
          /\ ~hfTokenSecret.defined
          /\ NothingCreated
    /\ (pc \in {"done", "error"} /\ previous.defined
            /\ DiffersOnlyInSecretArn(previous.config)
            /\ ~SecretArnRefused(previous.config)
            /\ ~SecretArnRefused(config)) => SameOutput

\* Two finished syntheses of a configuration with both models and
\* scheduling, the first without the ARN and the second with it.
C10_Witness ==
    /\ pc = "done"
    /\ previous.defined
    /\ ~previous.config.llms.huggingfaceApiSecretArn.defined
    /\ hfTokenSecret.defined
    /\ Len(models) = 2
    /\ Len(schedules) = 4

====
